---- MODULE Spec2Model ----
(***************************************************************************)
(* Model of src/bot.py: a Slack bot that keeps per-thread conversation    *)
(* memory in process-wide dictionaries and sets, and whose two event      *)
(* listeners (handle_mention, handle_message) are run by Bolt on a pool   *)
(* of worker threads.  A listener is modelled as a sequence of atomic     *)
(* segments; a segment ends where the code makes a blocking call          *)
(* (conversations_replies, GoogleSearch.get_dict, ChatCompletion.create)  *)
(* and between the membership test and the remove() of lines 169-170.     *)
(* Texts are sequences of tokens; strip, lower, in, startswith and        *)
(* replace are computed on the tokens.                                    *)
(* Every path of a listener ends with at most one say() and a return, so  *)
(* the say() calls of a run are kept with the run's outcome.              *)
(***************************************************************************)
EXTENDS Integers, Sequences, FiniteSets, TLC

VARIABLES
    conversation_memory,    \* dict thread_ts -> list of {role, content}   (line 44)
    search_results_memory,  \* dict thread_ts -> {results, summary}         (line 45)
    silenced_threads,       \* set of thread_ts                             (line 46)
    active_threads,         \* set of thread_ts                             (line 47)
    paused_threads,         \* set of thread_ts                             (line 48)
    last_activity,          \* dict thread_ts -> time                       (line 49)
    clock,                  \* time.time(): advances with each delivered event
    pc,                     \* per worker: position of the listener it runs
    ev,                     \* per worker: the event it was handed
    local,                  \* per worker: the listener's local variables
    out                     \* per worker: how its listener ended and the say() calls it
                            \* made, until Bolt takes the worker back

vars == <<conversation_memory, search_results_memory, silenced_threads,
          active_threads, paused_threads, last_activity, clock,
          pc, ev, local, out>>

store == <<conversation_memory, search_results_memory, silenced_threads,
           active_threads, paused_threads, last_activity>>

-----------------------------------------------------------------------------
(* Bounds of the model.  Spec runs the listeners of every event of Events;  *)
(* SpecRace runs one event more, of the mentions that touch only the flags. *)

MaxEvents == 2          \* events delivered in one behaviour of Spec
MaxRaceEvents == 3      \* events delivered in one behaviour of SpecRace
MaxLongEvents == 2      \* events delivered in one behaviour of SpecLong
SmallThread == 2        \* messages in a short platform thread
BigThread == 31         \* messages in a long platform thread
ManyResults == 6        \* organic results of a long result page

Workers == {1, 2}
Threads == {"t1", "t2"}

(* Program constants *)

MAX_MESSAGES_TO_KEEP == 30
BOT_START_TIME == 1
SLACK_CHANNEL_ID == "C0"
SLACK_BOT_ID == "U1"
SERPAPI_API_KEY == TRUE     \* truthy: line 21 exits otherwise

-----------------------------------------------------------------------------
(* Token texts and the string operations the listeners use *)

BotMention == "<@" \o SLACK_BOT_ID \o ">"

Texts == {
    <<" ", BotMention, " ">>,
    <<"hi">>,
    <<"pls", " ", "@KillBot">>,
    <<"search:", " ", "cats">> }

IsSpace(tok) == tok = " "

RECURSIVE lstrip(_)
lstrip(s) == IF s # <<>> /\ IsSpace(Head(s)) THEN lstrip(Tail(s)) ELSE s

RECURSIVE rstrip(_)
rstrip(s) ==
    IF s # <<>> /\ IsSpace(s[Len(s)]) THEN rstrip(SubSeq(s, 1, Len(s) - 1)) ELSE s

strip(s) == rstrip(lstrip(s))

LowerTok(tok) ==
    CASE tok = "@KillBot" -> "@killbot"
      [] tok = "Search:"  -> "search:"
      [] OTHER            -> tok

lower(s) == [i \in 1..Len(s) |-> LowerTok(s[i])]

contains(s, tok) == \E i \in 1..Len(s) : s[i] = tok

startswith(s, tok) == Len(s) > 0 /\ s[1] = tok

\* str.replace(old, ""): every occurrence of old is removed, case-sensitively
replace_empty(s, old) == SelectSeq(s, LAMBDA tok : tok # old)

-----------------------------------------------------------------------------
(* Dictionaries *)

Put(d, k, v) == [x \in (DOMAIN d) \cup {k} |-> IF x = k THEN v ELSE d[x]]

EmptyDict == [x \in {} |-> 0]

\* a listener's locals; before is the length of the thread's stored history
\* when the event was handed over, kept to compare with (nothing in the code
\* removes or rewrites a stored entry, so a history of the same length is the
\* same history)
Local0 == [query |-> <<>>, context |-> <<>>, before |-> 0]

History(mem, t) == IF t \in DOMAIN mem THEN mem[t] ELSE <<>>

\* Text values.  A fixed string has only a kind; a fetched message, a user
\* input and a service response also carry the thread whose request produced
\* them; an f-string carries its interpolated parts.
Fixed(kind) == [kind |-> kind]

\* message["text"] of message id of the platform thread
MsgText(thread, id) == [kind |-> "msg", thread |-> thread, id |-> id]

\* the stripped text of an event of the thread
InputText(thread, text) == [kind |-> "input", thread |-> thread, body |-> text]

\* one formatted organic result: title and link (line 109)
HitText(thread, id) == [kind |-> "hit", thread |-> thread, id |-> id]

\* a completion made for a request of the thread
ServiceText(kind, thread) == [kind |-> kind, thread |-> thread]

\* line 135
PreviousResultsText(results) == [kind |-> "previous_search_results", results |-> results]

\* line 122
SearchReplyText(query, results, summary) ==
    [kind |-> "search_reply", query |-> query, results |-> results, summary |-> summary]

GREETING == Fixed("greeting")                       \* line 174
REACTIVATED == Fixed("reactivated")                 \* line 171
SILENCED_MENTION == Fixed("silenced_tag_me_again")  \* line 180
SILENCED_MESSAGE == Fixed("silenced")               \* line 212
SEARCH_KEY_MISSING == Fixed("search_key_missing")   \* line 98
NO_SEARCH_RESULTS == Fixed("no_search_results")     \* line 107
SEARCH_ERROR == Fixed("search_error")               \* line 126
NO_RELEVANT == Fixed("no_relevant_results")         \* line 110
SUMMARY_ERROR == Fixed("summary_error")             \* line 91
QUOTA_EXCEEDED == Fixed("quota_exceeded")           \* line 149
ERROR_OCCURRED == Fixed("error_occurred")           \* line 151

Message(role, content) == [role |-> role, content |-> content]

NoOutcome == [how |-> "none", said |-> <<>>]

NoEvent == [type |-> "none", channel |-> "none", thread |-> "none", ts |-> 0, text |-> <<>>]

EventTypes == {"app_mention", "message"}

Fresh == BOT_START_TIME + 1

\* events of the configured channel, sent after the bot started: every text
\* in the first thread; a chat and a search mention and a chat message in the
\* second
FreshEvents ==
    [type : EventTypes, channel : {SLACK_CHANNEL_ID}, thread : {"t1"}, ts : {Fresh},
     text : Texts]
    \cup [type : {"app_mention"}, channel : {SLACK_CHANNEL_ID}, thread : {"t2"}, ts : {Fresh},
          text : {<<"hi">>, <<"search:", " ", "cats">>}]
    \cup [type : {"message"}, channel : {SLACK_CHANNEL_ID}, thread : {"t2"}, ts : {Fresh},
          text : {<<"hi">>}]

\* events sent before the bot started
StaleEvents ==
    [type : EventTypes, channel : {SLACK_CHANNEL_ID}, thread : {"t1"},
     ts : {BOT_START_TIME - 1},
     text : {<<" ", BotMention, " ">>, <<"search:", " ", "cats">>}]

\* events of another channel the bot is a member of
ForeignEvents ==
    [type : EventTypes, channel : {"C9"}, thread : {"t1"}, ts : {Fresh}, text : {<<"hi">>}]

Events == FreshEvents \cup StaleEvents \cup ForeignEvents

Init ==
    /\ conversation_memory = EmptyDict
    /\ search_results_memory = EmptyDict
    /\ silenced_threads = {}
    /\ active_threads = {}
    /\ paused_threads = {}
    /\ last_activity = EmptyDict
    /\ clock = 0
    /\ pc = [w \in Workers |-> "idle"]
    /\ ev = [w \in Workers |-> NoEvent]
    /\ local = [w \in Workers |-> Local0]
    /\ out = [w \in Workers |-> NoOutcome]

-----------------------------------------------------------------------------
(* Helpers *)

Max(a, b) == IF a > b THEN a ELSE b

\* the whole list, whatever n
WholeList(s, n) == s

\* lst[-n:]
LastN(s, n) == SubSeq(s, Max(1, Len(s) - n + 1), Len(s))

\* lst[:n]
FirstN(s, n) == SubSeq(s, 1, IF Len(s) < n THEN Len(s) ELSE n)

thread_ts(e) == e.thread

\* the comparison made against the epoch instead of the start time
is_recent_message_since_epoch(event_ts) == event_ts >= 0

is_recent_message(event_ts) == event_ts > BOT_START_TIME

\* say(text=..., thread_ts=...)
say(text, thread) == <<[thread |-> thread, text |-> text]>>

\* the listener returns (or raises): Bolt has the outcome
Finish(w, how, says) ==
    /\ pc' = [pc EXCEPT ![w] = "done"]
    /\ out' = [out EXCEPT ![w] = [how |-> how, said |-> says]]
    /\ local' = [local EXCEPT ![w] = Local0]

\* the listener waits in a blocking call
Block(w, at, loc) ==
    /\ pc' = [pc EXCEPT ![w] = at]
    /\ local' = [local EXCEPT ![w] = loc]
    /\ UNCHANGED out

-----------------------------------------------------------------------------
(* Bolt hands an event to a free worker, which starts the listener *)

Deliver(w, e, budget) ==
    /\ pc[w] = "idle"
    /\ clock < budget
    /\ clock' = clock + 1
    /\ ev' = [ev EXCEPT ![w] = e]

\* the worker goes back to the pool
Release(w) ==
    /\ pc[w] = "done"
    /\ pc' = [pc EXCEPT ![w] = "idle"]
    /\ ev' = [ev EXCEPT ![w] = NoEvent]
    /\ out' = [out EXCEPT ![w] = NoOutcome]
    /\ UNCHANGED <<store, local, clock>>

-----------------------------------------------------------------------------
(* The platform's answers *)

\* conversations_replies(channel, ts)["messages"]: message i of thread t; the
\* last one (a file upload) carries no "text"
PlatformThread(t, n) ==
    [i \in 1..n |-> [has_text |-> TRUE, text |-> MsgText(t, i)]]
    \o <<[has_text |-> FALSE, text |-> Fixed("absent")]>>

FetchResults(t) == {PlatformThread(t, SmallThread)}
LongFetchResults(t) == {PlatformThread(t, BigThread)}

\* results["organic_results"] of a search made for thread t
OrganicResults(t, n) == [i \in 1..n |-> HitText(t, i)]

SearchResults(t) == {OrganicResults(t, 0), OrganicResults(t, ManyResults)}

\* response["choices"][0]["message"]["content"] of a completion made for thread t
Completion(t) == ServiceText("completion", t)

Summary(t) == ServiceText("summary", t)

-----------------------------------------------------------------------------
(* fetch_thread_history, lines 60-74 *)

fetch_thread_history(mem, t, messages) ==
    LET base == IF t \in DOMAIN mem THEN mem[t] ELSE <<>>
        with_text == SelectSeq(messages, LAMBDA m : m.has_text)
    IN  Put(mem, t, base \o [i \in 1..Len(with_text) |-> Message("user", with_text[i].text)])

-----------------------------------------------------------------------------
(* get_gpt_response, lines 128-151 *)

\* lines 133-138
context_messages(mem, cache, thread_id, user_input) ==
    (IF thread_id \in DOMAIN cache
        THEN <<Message("system", PreviousResultsText(cache[thread_id].results))>>
        ELSE <<>>)
    \o LastN(mem[thread_id], MAX_MESSAGES_TO_KEEP)
    \o <<Message("user", user_input)>>

\* lines 130-144: up to the blocking ChatCompletion.create
get_gpt_response_call(w, loc, mem, thread_id, user_input) ==
    LET mem1 == IF thread_id \in DOMAIN mem THEN mem ELSE Put(mem, thread_id, <<>>)
    IN  /\ conversation_memory' = mem1
        /\ Block(w, "gpt", [loc EXCEPT !.context =
               context_messages(mem1, search_results_memory, thread_id, user_input)])
        /\ UNCHANGED <<search_results_memory, silenced_threads>>

\* the reply appended to every stored conversation
append_reply_to_all(mem, thread_id, reply) ==
    [x \in DOMAIN mem |-> Append(mem[x], Message("assistant", reply))]

\* line 146
append_reply(mem, thread_id, reply) ==
    [mem EXCEPT ![thread_id] = Append(@, Message("assistant", reply))]

\* lines 145-147, then say() of line 195 / 222
get_gpt_response_ok(w) ==
    /\ pc[w] = "gpt"
    /\ LET t == thread_ts(ev[w])
           reply == Completion(t)
       IN  /\ conversation_memory' = append_reply(conversation_memory, t, reply)
           /\ Finish(w, "replied", say(reply, t))
    /\ UNCHANGED <<search_results_memory, silenced_threads, active_threads,
                   paused_threads, last_activity, clock, ev>>

\* the user turn recorded although the completion failed
gpt_failure_memory_with_user_turn(mem, thread_id, user_input) ==
    [mem EXCEPT ![thread_id] =
        Append(@, Message("user", InputText(thread_id, user_input)))]

\* what the except clauses of lines 148-151 leave in conversation_memory
gpt_failure_memory(mem, thread_id, user_input) == mem

\* lines 148-151, then say() of line 195 / 222
get_gpt_response_except(w, quota) ==
    /\ pc[w] = "gpt"
    /\ conversation_memory' =
          gpt_failure_memory(conversation_memory, thread_ts(ev[w]), strip(ev[w].text))
    /\ Finish(w, IF quota THEN "quota" ELSE "error",
              say(IF quota THEN QUOTA_EXCEEDED ELSE ERROR_OCCURRED, thread_ts(ev[w])))
    /\ UNCHANGED <<search_results_memory, silenced_threads, active_threads,
                   paused_threads, last_activity, clock, ev>>

-----------------------------------------------------------------------------
(* search_online, lines 93-126, and summarize_search_results, lines 76-91 *)

\* lines 95-103: up to the blocking get_dict
search_online_call(w, loc, mem, query, t) ==
    /\ conversation_memory' = mem
    /\ IF ~SERPAPI_API_KEY
          THEN Finish(w, "search_failed", say(SEARCH_KEY_MISSING, t))
          ELSE Block(w, "search", [loc EXCEPT !.query = query])
    /\ UNCHANGED <<search_results_memory, silenced_threads>>

\* lines 124-126: get_dict raised; then say() of line 191 / 218
search_online_except(w) ==
    /\ pc[w] = "search"
    /\ Finish(w, "search_failed", say(SEARCH_ERROR, thread_ts(ev[w])))
    /\ UNCHANGED <<store, clock, ev>>

\* lines 105-107: the answer has no "organic_results"; then say() of line 191 / 218
search_online_no_results(w) ==
    /\ pc[w] = "search"
    /\ Finish(w, "search_failed", say(NO_SEARCH_RESULTS, thread_ts(ev[w])))
    /\ UNCHANGED <<store, clock, ev>>

\* lines 109-110
formatted_results(organic) ==
    IF FirstN(organic, 5) # <<>> THEN FirstN(organic, 5) ELSE <<NO_RELEVANT>>

\* an entry the thread already has is kept
store_search_keep_first(cache, t, results, summary) ==
    IF t \in DOMAIN cache THEN cache
    ELSE Put(cache, t, [results |-> results, summary |-> summary])

\* lines 116-119
store_search(cache, t, results, summary) ==
    Put(cache, t, [results |-> results, summary |-> summary])

\* lines 109-122 with summarize_search_results (lines 78-91, ok: the completion
\* succeeded), then say() of line 191 / 218.  Between get_dict and the summary's
\* completion the listener touches only its locals, so both waits are one.
search_online_results(w, organic, ok) ==
    /\ pc[w] = "search"
    /\ LET t == thread_ts(ev[w])
           results == formatted_results(organic)
           summary == IF ok THEN Summary(t) ELSE SUMMARY_ERROR
       IN  /\ search_results_memory' = store_search(search_results_memory, t, results, summary)
           /\ Finish(w, IF organic = <<>> THEN "search_empty" ELSE "replied",
                     say(SearchReplyText(local[w].query, results, summary), t))
    /\ UNCHANGED <<conversation_memory, silenced_threads, active_threads,
                   paused_threads, last_activity, clock, ev>>

-----------------------------------------------------------------------------
(* handle_mention, lines 153-195 *)

\* line 168
is_exact_mention(text) == strip(text) = <<BotMention>>

\* the trigger looked for without lowering the text
is_kill_case_sensitive(text) == contains(text, "@killbot")

\* lines 178 and 210
is_kill(text) == contains(lower(text), "@killbot")

\* lines 188 and 215
is_search(text) == startswith(lower(text), "search:")

\* lines 189 and 216
search_query(text) == strip(replace_empty(text, "search:"))

\* the silenced check of line 185 left out
mention_suppressed_never(t) == FALSE

\* line 185
mention_suppressed(t) == t \in silenced_threads

\* lines 156-163: up to the blocking conversations_replies
handle_mention_start(w, event, budget) ==
    /\ event.type = "app_mention"
    /\ Deliver(w, event, budget)
    /\ IF ~is_recent_message(event.ts)
          THEN /\ Finish(w, "stale", <<>>)
               /\ UNCHANGED active_threads
          ELSE /\ active_threads' = active_threads \cup {thread_ts(event)}
               /\ Block(w, "fetch", [Local0 EXCEPT !.before =
                      Len(History(conversation_memory, thread_ts(event)))])
    /\ UNCHANGED <<conversation_memory, search_results_memory, silenced_threads,
                   paused_threads, last_activity>>

\* lines 167-195, entered with conversation_memory as fetch_thread_history left it
handle_mention_body(w, mem) ==
    LET t == thread_ts(ev[w])
        text == strip(ev[w].text)
    IN  IF is_exact_mention(text)
          THEN /\ conversation_memory' = mem
               /\ IF t \in silenced_threads
                     THEN Block(w, "remove", local[w])
                     ELSE Finish(w, "replied", say(GREETING, t))
               /\ UNCHANGED <<search_results_memory, silenced_threads>>
        ELSE IF is_kill(text)
          THEN /\ conversation_memory' = mem
               /\ silenced_threads' = silenced_threads \cup {t}
               /\ Finish(w, "replied", say(SILENCED_MENTION, t))
               /\ UNCHANGED search_results_memory
        ELSE IF mention_suppressed(t)
          THEN /\ conversation_memory' = mem
               /\ Finish(w, "silent", <<>>)
               /\ UNCHANGED <<search_results_memory, silenced_threads>>
        ELSE IF is_search(text)
          THEN search_online_call(w, local[w], mem, search_query(text), t)
          ELSE get_gpt_response_call(w, local[w], mem, t, InputText(t, text))

\* lines 63-71 succeeded, then lines 167-195
handle_mention_fetched(w, messages) ==
    /\ pc[w] = "fetch"
    /\ handle_mention_body(w,
          fetch_thread_history(conversation_memory, thread_ts(ev[w]), messages))
    /\ last_activity' = Put(last_activity, thread_ts(ev[w]), clock)
    /\ UNCHANGED <<active_threads, paused_threads, clock, ev>>

\* lines 72-74: conversations_replies raised, then lines 167-195
handle_mention_unfetched(w) ==
    /\ pc[w] = "fetch"
    /\ handle_mention_body(w, conversation_memory)
    /\ UNCHANGED <<active_threads, paused_threads, last_activity, clock, ev>>

\* lines 170-172: set.remove raises KeyError when the element is gone
handle_mention_remove(w) ==
    /\ pc[w] = "remove"
    /\ IF thread_ts(ev[w]) \in silenced_threads
          THEN /\ silenced_threads' = silenced_threads \ {thread_ts(ev[w])}
               /\ Finish(w, "replied", say(REACTIVATED, thread_ts(ev[w])))
          ELSE /\ Finish(w, "raised", <<>>)
               /\ UNCHANGED silenced_threads
    /\ UNCHANGED <<conversation_memory, search_results_memory, active_threads,
                   paused_threads, last_activity, clock, ev>>

-----------------------------------------------------------------------------
(* handle_message, lines 197-222 *)

\* the silenced check of line 207 alone
message_ignored_only_silenced(t) == t \in silenced_threads

\* line 207 without its active_threads test
message_ignored_without_active(t) ==
    t \in silenced_threads \/ t \in paused_threads

\* line 207
message_ignored(t) ==
    t \in silenced_threads \/ t \in paused_threads \/ t \notin active_threads

\* lines 200-222: up to the first blocking call
handle_message(w, event, budget) ==
    /\ event.type = "message"
    /\ Deliver(w, event, budget)
    /\ LET t == thread_ts(event)
           text == strip(event.text)
           loc == [Local0 EXCEPT !.before = Len(History(conversation_memory, t))]
       IN  IF ~is_recent_message(event.ts)
             THEN /\ Finish(w, "stale", <<>>)
                  /\ UNCHANGED <<conversation_memory, search_results_memory,
                                 silenced_threads>>
           ELSE IF message_ignored(t)
             THEN /\ Finish(w, "silent", <<>>)
                  /\ UNCHANGED <<conversation_memory, search_results_memory,
                                 silenced_threads>>
           ELSE IF is_kill(text)
             THEN /\ silenced_threads' = silenced_threads \cup {t}
                  /\ Finish(w, "replied", say(SILENCED_MESSAGE, t))
                  /\ UNCHANGED <<conversation_memory, search_results_memory>>
           ELSE IF is_search(text)
             THEN search_online_call(w, loc, conversation_memory, search_query(text), t)
             ELSE get_gpt_response_call(w, loc, conversation_memory, t, InputText(t, text))
    /\ UNCHANGED <<active_threads, paused_threads, last_activity>>

-----------------------------------------------------------------------------

Next ==
    \/ \E w \in Workers, event \in Events : handle_mention_start(w, event, MaxEvents)
    \/ \E w \in Workers : \E messages \in FetchResults(thread_ts(ev[w])) :
          handle_mention_fetched(w, messages)
    \/ \E w \in Workers : handle_mention_unfetched(w)
    \/ \E w \in Workers : handle_mention_remove(w)
    \/ \E w \in Workers, event \in Events : handle_message(w, event, MaxEvents)
    \/ \E w \in Workers : get_gpt_response_ok(w)
    \/ \E w \in Workers, quota \in BOOLEAN : get_gpt_response_except(w, quota)
    \/ \E w \in Workers : search_online_except(w)
    \/ \E w \in Workers : search_online_no_results(w)
    \/ \E w \in Workers : \E organic \in SearchResults(thread_ts(ev[w])), ok \in BOOLEAN :
          search_online_results(w, organic, ok)
    \/ \E w \in Workers : Release(w)

Spec == Init /\ [][Next]_vars

\* The listeners of one more event, all of them mentions of the first thread
\* that only read and write the flags: the silence trigger and the bare mention.
RaceEvents ==
    [type : {"app_mention"}, channel : {SLACK_CHANNEL_ID}, thread : {"t1"}, ts : {Fresh},
     text : {<<" ", BotMention, " ">>, <<"pls", " ", "@KillBot">>}]

NextRace ==
    \/ \E w \in Workers, event \in RaceEvents :
          handle_mention_start(w, event, MaxRaceEvents)
    \/ \E w \in Workers : \E messages \in FetchResults(thread_ts(ev[w])) :
          handle_mention_fetched(w, messages)
    \/ \E w \in Workers : handle_mention_unfetched(w)
    \/ \E w \in Workers : handle_mention_remove(w)
    \/ \E w \in Workers : Release(w)

SpecRace == Init /\ [][NextRace]_vars

\* The listeners of a thread that is longer on the platform than the context
\* window: chat and search mentions and messages of the first thread.
LongEvents ==
    [type : EventTypes, channel : {SLACK_CHANNEL_ID}, thread : {"t1"}, ts : {Fresh},
     text : {<<"hi">>, <<"search:", " ", "cats">>}]

NextLong ==
    \/ \E w \in Workers, event \in LongEvents :
          handle_mention_start(w, event, MaxLongEvents)
    \/ \E w \in Workers : \E messages \in LongFetchResults(thread_ts(ev[w])) :
          handle_mention_fetched(w, messages)
    \/ \E w \in Workers : handle_mention_unfetched(w)
    \/ \E w \in Workers, event \in LongEvents :
          handle_message(w, event, MaxLongEvents)
    \/ \E w \in Workers : get_gpt_response_ok(w)
    \/ \E w \in Workers, quota \in BOOLEAN : get_gpt_response_except(w, quota)
    \/ \E w \in Workers : search_online_except(w)
    \/ \E w \in Workers : search_online_no_results(w)
    \/ \E w \in Workers : \E organic \in SearchResults(thread_ts(ev[w])), ok \in BOOLEAN :
          search_online_results(w, organic, ok)
    \/ \E w \in Workers : Release(w)

SpecLong == Init /\ [][NextLong]_vars

-----------------------------------------------------------------------------
(* Steps of one worker, as seen in a transition *)

\* worker w takes a step
StepOf(w) == pc'[w] # pc[w]

\* worker w is handed an event and runs the listener's first segment
Starts(w) == pc[w] = "idle" /\ pc'[w] # "idle"

\* worker w's listener returns or raises
Ends(w) == pc[w] # "done" /\ pc'[w] = "done"

\* the listener ended in this step without having said anything
EndsSilently(w) == pc'[w] = "done" /\ out'[w].said = <<>>

\* the step in which the listener of w reads silenced_threads to decide
\* whether to answer: line 207 for a message, lines 168-185 for a mention
Decides(w) ==
    \/ Starts(w) /\ ev'[w].type = "message" /\ is_recent_message(ev'[w].ts)
    \/ pc[w] = "fetch" /\ StepOf(w)

IsMention(e) == e.type = "app_mention"

-----------------------------------------------------------------------------
(* C1: silence precedence *)

-----------------------------------------------------------------------------
(* C2: stale events *)

\* C2: an event sent before the bot started changes no stored thread state
\* (history, cache, silenced, active and paused flags, last activity), makes
\* its listener say nothing and ends the listener at once.
C2_StaleEventDropped ==
    [][\A w \in Workers :
         (Starts(w) /\ ev'[w].ts < BOT_START_TIME)
         => (EndsSilently(w) /\ UNCHANGED store)]_vars

\* a stale mention of a thread that is active and silenced has been dropped
C2_Witness ==
    \E w \in Workers :
        /\ pc[w] = "done" /\ out[w].how = "stale"
        /\ ev[w].ts < BOT_START_TIME
        /\ IsMention(ev[w]) /\ is_exact_mention(ev[w].text)
        /\ thread_ts(ev[w]) \in active_threads \cap silenced_threads

-----------------------------------------------------------------------------
(* C3: passive messages before activation *)

\* C3: a passive message of a thread that is not in active_threads changes no
\* stored thread state, makes its listener say nothing and ends it at once,
\* whatever its text.
C3_PassiveBeforeActive ==
    [][\A w \in Workers :
         (/\ Starts(w)
          /\ ev'[w].type = "message"
          /\ thread_ts(ev'[w]) \notin active_threads)
         => (EndsSilently(w) /\ UNCHANGED store)]_vars

\* a fresh passive message carrying the silence trigger has been ignored in a
\* thread that is not active, while the other thread is
C3_Witness ==
    \E w \in Workers :
        /\ pc[w] = "done" /\ out[w].how = "silent"
        /\ ev[w].type = "message" /\ is_recent_message(ev[w].ts)
        /\ is_kill(strip(ev[w].text))
        /\ thread_ts(ev[w]) \notin active_threads
        /\ active_threads # {}

-----------------------------------------------------------------------------
(* C4: history retention cap *)

\* C4: the stored history of every thread holds at most MAX_MESSAGES_TO_KEEP
\* entries.
C4_HistoryCapped ==
    \A t \in DOMAIN conversation_memory :
        Len(conversation_memory[t]) <= MAX_MESSAGES_TO_KEEP

-----------------------------------------------------------------------------
(* C5: search failure isolation *)

SearchFailures == {"search_failed", "search_empty"}

ErrorTexts == {SEARCH_KEY_MISSING, NO_SEARCH_RESULTS, SEARCH_ERROR}

\* C5: when a search fails (no credentials, no results or an empty result
\* list, a transport error) the cache is left exactly as it was and the
\* listener says one error text.
C5_SearchFailureIsolation ==
    [][\A w \in Workers :
         (Ends(w) /\ out'[w].how \in SearchFailures)
         => (/\ search_results_memory' = search_results_memory
             /\ Len(out'[w].said) = 1
             /\ out'[w].said[1].text \in ErrorTexts)]_vars

-----------------------------------------------------------------------------
(* C6: completion failure isolation *)

CompletionFailures == {"quota", "error"}

\* C6 as stated: when the completion of a chat event fails, the thread's
\* stored history is what it was when the event was received.
C6_CompletionFailureIsolation_AsStated ==
    [][\A w \in Workers :
         (Ends(w) /\ out'[w].how \in CompletionFailures)
         => Len(History(conversation_memory', thread_ts(ev[w]))) = local[w].before]_vars

\* C6 as amended: handling a failed completion adds nothing to any stored
\* history, and the listener says exactly one error text, the quota text for
\* a quota failure and a different text for any other failure.
C6_CompletionFailureIsolation ==
    [][\A w \in Workers :
         (Ends(w) /\ out'[w].how \in CompletionFailures)
         => (/\ conversation_memory' = conversation_memory
             /\ Len(out'[w].said) = 1
             /\ out'[w].said[1].thread = thread_ts(ev[w])
             /\ out'[w].said[1].text =
                   (IF out'[w].how = "quota" THEN QUOTA_EXCEEDED ELSE ERROR_OCCURRED)
             /\ QUOTA_EXCEEDED # ERROR_OCCURRED)]_vars

\* a passive chat message of an active thread with stored history has ended
\* with the quota text
C6_Witness ==
    \E w \in Workers :
        /\ pc[w] = "done" /\ out[w].how = "quota"
        /\ ev[w].type = "message"
        /\ History(conversation_memory, thread_ts(ev[w])) # <<>>

-----------------------------------------------------------------------------
(* C7: channel filter *)

\* C7: no step of a listener whose event is of another channel than
\* SLACK_CHANNEL_ID changes stored thread state or says anything.
C7_ChannelFilter ==
    [][\A w \in Workers :
         (StepOf(w) /\ ev'[w].channel \notin {SLACK_CHANNEL_ID, "none"})
         => (UNCHANGED store /\ out'[w].said = <<>>)]_vars

-----------------------------------------------------------------------------
(* C8: cross-thread isolation *)

\* a text produced for thread t, or a fixed string
OwnOrFixed(text, t) == "thread" \in DOMAIN text => text.thread = t

\* every stored entry of a thread was produced for that thread
OwnContent ==
    /\ \A t \in DOMAIN conversation_memory :
          \A i \in 1..Len(conversation_memory[t]) :
              conversation_memory[t][i].content.thread = t
    /\ \A t \in DOMAIN search_results_memory :
          /\ \A i \in 1..Len(search_results_memory[t].results) :
                OwnOrFixed(search_results_memory[t].results[i], t)
          /\ OwnOrFixed(search_results_memory[t].summary, t)
    /\ \A t \in DOMAIN last_activity : t \in active_threads

\* what is stored for thread t
ThreadState(t) ==
    <<History(conversation_memory, t), t \in DOMAIN conversation_memory,
      IF t \in DOMAIN search_results_memory THEN <<search_results_memory[t]>> ELSE <<>>,
      t \in silenced_threads, t \in active_threads, t \in paused_threads,
      IF t \in DOMAIN last_activity THEN <<last_activity[t]>> ELSE <<>>>>

\* the state of a thread changes only in a step of a listener whose event is
\* of that thread
OwnSteps ==
    \A t \in Threads :
        \/ \E w \in Workers : StepOf(w) /\ thread_ts(ev'[w]) = t
        \/ ThreadState(t)' = ThreadState(t)

\* C8: under any interleaving of the listeners of two threads, the history and
\* cache of a thread hold only entries produced for that thread, and its
\* history, cache and flags change only in steps of its own events.
C8_CrossThreadIsolation == []OwnContent /\ [][OwnSteps]_vars

\* both threads hold an assistant turn, one listener of each thread having
\* waited for its completion at the same time as the other
C8_Witness ==
    /\ \A t \in Threads :
          /\ t \in DOMAIN conversation_memory
          /\ \E i \in 1..Len(conversation_memory[t]) :
                conversation_memory[t][i].role = "assistant"
    /\ \A w \in Workers : pc[w] = "done" /\ out[w].how = "replied"
    /\ \E w, v \in Workers : thread_ts(ev[w]) # thread_ts(ev[v])

-----------------------------------------------------------------------------
(* C9: same-thread serialization *)

\* C9: no listener fails part-way, whatever other listener of the same
\* thread runs at the same time.
C9_NoListenerFails == \A w \in Workers : out[w].how # "raised"

-----------------------------------------------------------------------------
(* C10: exact mention *)

\* C10: the listener of a fresh mention whose trimmed text is exactly the bot
\* mention ends having said exactly one text, the reactivation text (and then
\* the thread is not silenced) or the greeting, with the thread active.
C10_ExactMention ==
    [][\A w \in Workers :
         (/\ Ends(w)
          /\ IsMention(ev[w]) /\ is_recent_message(ev[w].ts)
          /\ is_exact_mention(ev[w].text))
         => (/\ thread_ts(ev[w]) \in active_threads'
             /\ Len(out'[w].said) = 1
             /\ out'[w].said[1].text \in {REACTIVATED, GREETING}
             /\ (out'[w].said[1].text = REACTIVATED
                    => thread_ts(ev[w]) \notin silenced_threads')
             /\ (out'[w].said[1].text = GREETING
                    => UNCHANGED silenced_threads)
             /\ UNCHANGED search_results_memory)]_vars

-----------------------------------------------------------------------------
(* C11: silence trigger *)

\* the text holds the silence trigger in some letter case
HasSilenceTrigger(text) == \E i \in 1..Len(text) : LowerTok(text[i]) = "@killbot"

SilenceAcks == {SILENCED_MENTION, SILENCED_MESSAGE}

\* what the step added to the history of t is fetched thread messages only
OnlyFetchedAdded(t) ==
    LET old == History(conversation_memory, t)
        new == History(conversation_memory', t)
    IN  /\ Len(new) >= Len(old)
        /\ \A i \in (Len(old) + 1)..Len(new) : new[i].content.kind = "msg"

\* the listener of w ends in this step having silenced its thread and said one
\* acknowledgment, with no search or completion asked for
Silences(w) ==
    LET t == thread_ts(ev'[w])
    IN  /\ t \in silenced_threads'
        /\ pc'[w] = "done"
        /\ Len(out'[w].said) = 1
        /\ out'[w].said[1].thread = t
        /\ out'[w].said[1].text \in SilenceAcks
        /\ UNCHANGED search_results_memory
        /\ OnlyFetchedAdded(t)

\* C11 as stated: a fresh event, mention or passive message, of an active
\* thread whose text holds the silence trigger and is not the bare mention
\* silences the thread and is acknowledged, whatever the thread's silenced and
\* paused flags, and is neither searched, completed nor stored as chat.
C11_SilenceTrigger_AsStated ==
    [][\A w \in Workers :
         (/\ Decides(w)
          /\ thread_ts(ev'[w]) \in active_threads
          /\ HasSilenceTrigger(ev'[w].text)
          /\ ~is_exact_mention(ev'[w].text))
         => Silences(w)]_vars

\* C11 as amended: the same for every such mention, and for every such passive
\* message of a thread that is neither silenced nor paused.
C11_SilenceTrigger ==
    [][\A w \in Workers :
         (/\ Decides(w)
          /\ thread_ts(ev'[w]) \in active_threads
          /\ HasSilenceTrigger(ev'[w].text)
          /\ ~is_exact_mention(ev'[w].text)
          /\ \/ IsMention(ev'[w])
             \/ thread_ts(ev'[w]) \notin silenced_threads \cup paused_threads)
         => Silences(w)]_vars

\* a passive message and a mention of the same thread, both carrying the
\* trigger, have both been acknowledged
C11_Witness ==
    \E w, v \in Workers :
        /\ pc[w] = "done" /\ ev[w].type = "message"
        /\ out[w].said = say(SILENCED_MESSAGE, thread_ts(ev[w]))
        /\ pc[v] = "done" /\ IsMention(ev[v])
        /\ out[v].said = say(SILENCED_MENTION, thread_ts(ev[v]))
        /\ thread_ts(ev[w]) = thread_ts(ev[v])
        /\ thread_ts(ev[w]) \in silenced_threads

-----------------------------------------------------------------------------
(* C12: a successful search commits the cache *)

\* the result lines of a page of ManyResults results: the first five (line 109)
ShownHits(t) ==
    [i \in 1..(IF ManyResults < 5 THEN ManyResults ELSE 5) |-> HitText(t, i)]

\* the cache entry of thread t, if any
CacheOf(cache, t) == IF t \in DOMAIN cache THEN <<cache[t]>> ELSE <<>>

\* C12: when a search returns results, the cache of the thread is afterwards
\* exactly the formatted results and the summary of this search, whatever it
\* held before, the caches of the other threads are as they were, and the
\* listener says one text holding the query, these results and this summary.
C12_SearchCommitsCache ==
    [][\A w \in Workers :
         (pc[w] = "search" /\ Ends(w) /\ out'[w].how = "replied")
         => LET t == thread_ts(ev[w])
            IN  /\ t \in DOMAIN search_results_memory'
                /\ search_results_memory'[t].results = ShownHits(t)
                /\ search_results_memory'[t].summary \in {Summary(t), SUMMARY_ERROR}
                /\ DOMAIN search_results_memory'[t] = {"results", "summary"}
                /\ \A u \in Threads \ {t} :
                      CacheOf(search_results_memory', u) = CacheOf(search_results_memory, u)
                /\ Len(out'[w].said) = 1
                /\ out'[w].said[1].thread = t
                /\ out'[w].said[1].text =
                      SearchReplyText(strip(replace_empty(strip(ev[w].text), "search:")),
                                      search_results_memory'[t].results,
                                      search_results_memory'[t].summary)]_vars

\* two searches of one thread have ended, one with an empty page and one with
\* results, and the cache holds the results and their summary: the entry of
\* the empty page was replaced
C12_Witness ==
    \E w, v \in Workers :
        /\ pc[w] = "done" /\ out[w].how = "replied" /\ is_search(strip(ev[w].text))
        /\ pc[v] = "done" /\ out[v].how = "search_empty"
        /\ thread_ts(ev[w]) = thread_ts(ev[v])
        /\ thread_ts(ev[w]) \in DOMAIN search_results_memory
        /\ search_results_memory[thread_ts(ev[w])] =
              [results |-> ShownHits(thread_ts(ev[w])),
               summary |-> Summary(thread_ts(ev[w]))]

-----------------------------------------------------------------------------
(* C13: a successful chat commits both turns *)

\* C13: when the completion of a chat event succeeds, the thread's history
\* afterwards ends with the user turn holding the event's text followed by
\* the assistant turn holding the reply, and the listener says that reply.
C13_ChatCommitsBothTurns ==
    [][\A w \in Workers :
         (pc[w] = "gpt" /\ Ends(w) /\ out'[w].how = "replied")
         => LET t == thread_ts(ev[w])
                h == History(conversation_memory', t)
            IN  /\ Len(out'[w].said) = 1
                /\ out'[w].said[1].thread = t
                /\ Len(h) >= 2
                /\ h[Len(h)] = Message("assistant", out'[w].said[1].text)
                /\ h[Len(h) - 1] = Message("user", InputText(t, strip(ev[w].text)))]_vars

-----------------------------------------------------------------------------
(* C14: command precedence *)

\* the first matching rule, in the order exact bot mention, silence trigger,
\* search: prefix in any letter case, plain chat, for a trimmed text
Classify(text) ==
    IF text = <<BotMention>> THEN "greeting"
    ELSE IF HasSilenceTrigger(text) THEN "silence"
    ELSE IF Len(text) > 0 /\ LowerTok(text[1]) = "search:" THEN "search"
    ELSE "chat"

\* the command the listener of w acts on in the step in which it decides
Acted(w) ==
    IF pc'[w] = "remove" \/ (pc'[w] = "done" /\ out'[w].said = say(GREETING, thread_ts(ev'[w])))
       THEN "greeting"
    ELSE IF pc'[w] = "done" /\ Len(out'[w].said) = 1 /\ out'[w].said[1].text \in SilenceAcks
       THEN "silence"
    ELSE IF pc'[w] = "search" THEN "search"
    ELSE IF pc'[w] = "gpt" THEN "chat"
    ELSE "none"

\* C14: whenever a listener acts on the text of its event, the command it
\* acts on is the first matching rule; so a text that starts with search: and
\* holds the silence trigger silences the thread without a search, and a text
\* that starts with search: in any letter case is not completed as chat.
C14_CommandPrecedence ==
    [][\A w \in Workers :
         (Decides(w) /\ ~EndsSilently(w))
         => Acted(w) = Classify(strip(ev'[w].text))]_vars

-----------------------------------------------------------------------------
(* C15: one-time backfill *)

\* C15: no fetched message is stored in the history of its thread more often
\* than it is in the platform thread, which holds every message once.
C15_BackfillOnce ==
    \A t \in DOMAIN conversation_memory :
        \A i, j \in 1..Len(conversation_memory[t]) :
            (i < j /\ conversation_memory[t][i].content.kind = "msg")
            => conversation_memory[t][i] # conversation_memory[t][j]

-----------------------------------------------------------------------------
(* C16: last activity *)

\* the event of w is one that is processed for its thread: a fresh mention, or
\* a fresh passive message that is answered
Processed(w) ==
    /\ is_recent_message(ev'[w].ts)
    /\ IsMention(ev'[w]) \/ out'[w].said # <<>>

\* C16: when the listener of a processed event ends, its thread has a last
\* activity time, and that time is the present one when the listener was
\* handed the event in the same step.
C16_LastActivityFresh ==
    [][\A w \in Workers :
         (Ends(w) /\ Processed(w))
         => LET t == thread_ts(ev'[w])
            IN  /\ t \in DOMAIN last_activity'
                /\ Starts(w) => last_activity'[t] = clock']_vars

-----------------------------------------------------------------------------
(* C17: context composition *)

\* the listener of w builds the context of a completion in this step
BuildsContext(w) == pc[w] # "gpt" /\ pc'[w] = "gpt"

\* the last k entries of h, oldest first
Newest(h, k) == [i \in 1..k |-> h[Len(h) - k + i]]

\* C17: the context built for a chat event is one system entry holding the
\* cached results if and only if the thread has a cache entry, then the last
\* min(len(history), MAX_MESSAGES_TO_KEEP) stored entries oldest first, then
\* the user's text; it has at most MAX_MESSAGES_TO_KEEP + 2 entries, and a
\* passive message's step leaves the stored history as it was.
C17_ContextComposition ==
    [][\A w \in Workers :
         BuildsContext(w)
         => LET t == thread_ts(ev'[w])
                h == History(conversation_memory', t)
                k == IF Len(h) < MAX_MESSAGES_TO_KEEP THEN Len(h) ELSE MAX_MESSAGES_TO_KEEP
                c == local'[w].context
                sys == IF t \in DOMAIN search_results_memory THEN 1 ELSE 0
            IN  /\ Len(c) = sys + k + 1
                /\ Len(c) <= MAX_MESSAGES_TO_KEEP + 2
                /\ sys = 1 =>
                      c[1] = [role |-> "system",
                              content |-> PreviousResultsText(search_results_memory[t].results)]
                /\ \A i \in 1..k : c[sys + i] = Newest(h, k)[i]
                /\ c[Len(c)] = [role |-> "user", content |-> InputText(t, strip(ev'[w].text))]
                /\ UNCHANGED search_results_memory
                /\ ev'[w].type = "message"
                      => History(conversation_memory', t) = History(conversation_memory, t)]_vars

\* a context of MAX_MESSAGES_TO_KEEP + 2 entries has been built for a thread
\* whose stored history is longer than MAX_MESSAGES_TO_KEEP
C17_Witness ==
    \E w \in Workers :
        /\ pc[w] = "gpt"
        /\ Len(local[w].context) = MAX_MESSAGES_TO_KEEP + 2
        /\ local[w].context[1].role = "system"
        /\ Len(History(conversation_memory, thread_ts(ev[w]))) > MAX_MESSAGES_TO_KEEP

-----------------------------------------------------------------------------
(* C19: no reply after silencing *)

\* C19: no listener says the reply of a completion or of a search for a
\* thread that is silenced at that moment, that is, after the silence was
\* acknowledged and before any reactivation.
C19_NoReplyAfterSilencing ==
    [][\A w \in Workers :
         (pc[w] \in {"gpt", "search"} /\ Ends(w) /\ out'[w].said # <<>>)
         => thread_ts(ev[w]) \notin silenced_threads]_vars

-----------------------------------------------------------------------------
(* C20: silenced implies active *)

\* C20: every silenced thread is active, and no step takes a thread out of
\* active_threads.
C20_SilencedImpliesActive ==
    /\ [](silenced_threads \subseteq active_threads)
    /\ [][active_threads \subseteq active_threads']_vars

\* a thread has been silenced by a passive message while the other thread is
\* not active
C20_Witness ==
    \E w \in Workers :
        /\ pc[w] = "done" /\ ev[w].type = "message"
        /\ out[w].said = say(SILENCED_MESSAGE, thread_ts(ev[w]))
        /\ thread_ts(ev[w]) \in silenced_threads \cap active_threads
        /\ active_threads # Threads

====
